---- MODULE Spec2Model ----
(***************************************************************************)
(* A model of property_search.py: the listing table and its loader, the    *)
(* filter engine, the sort engine and the thumbnail cache with its worker  *)
(* pool and the Tk timer queue.                                            *)
(*                                                                         *)
(* Text is modelled as a sequence of one-character strings, so that        *)
(* strip(), lower(), the regular expression of num() and float() are       *)
(* computed character by character.                                        *)
(***************************************************************************)
EXTENDS Integers, Sequences, FiniteSets, TLC

VARIABLES
    all_rows,       \* global all_rows: the Listing Table
    headers,        \* global headers: the Schema
    zip_lookup,     \* global zip_lookup: ZIP -> town
    photo_images,   \* global photo_images: the Thumbnail Cache
    sort_state,     \* sort_state of open_property_search_window
    crit,           \* the eight filter StringVars
    county_values,  \* county_dropdown["values"]
    town_values,    \* town_dropdown["values"]
    tree,           \* tree.get_children(): item ids in display order
    tree_columns,   \* tree["columns"]
    tree_items,     \* per displayed item: its values and its image
    timers,         \* callbacks registered with tree.after, by due time
    tasks,          \* everything submitted to thumb_pool, in order
    next_item,      \* the id the next tree.insert returns
    item_list_no,   \* history: the raw LIST_NO cell of every item created
    refreshed,      \* history: who last called refresh_table, with which rows
    odd_calls,      \* history: columns sorted an odd number of times
    dialog,         \* the last messagebox shown
    events,         \* history: the user's operations so far
    op              \* history: the user's last operation

vars == <<all_rows, headers, zip_lookup, photo_images, sort_state, crit,
          county_values, town_values, tree, tree_columns, tree_items, timers,
          tasks,
          next_item, item_list_no, refreshed, odd_calls, dialog, events, op>>

-----------------------------------------------------------------------------
(* Characters *)

Digits == {"0", "1", "2", "3", "4", "5", "6", "7", "8", "9"}

DigitVal(c) ==
    CASE c = "0" -> 0 [] c = "1" -> 1 [] c = "2" -> 2 [] c = "3" -> 3
      [] c = "4" -> 4 [] c = "5" -> 5 [] c = "6" -> 6 [] c = "7" -> 7
      [] c = "8" -> 8 [] c = "9" -> 9

\* The characters str.strip() removes, among those the model's text uses.
Whitespace == {" ", "\t"}

UpperCase == <<"A", "B", "C", "D", "E", "F", "G", "H", "I", "J", "K", "L", "M",
               "N", "O", "P", "Q", "R", "S", "T", "U", "V", "W", "X", "Y", "Z">>

LowerCase == <<"a", "b", "c", "d", "e", "f", "g", "h", "i", "j", "k", "l", "m",
               "n", "o", "p", "q", "r", "s", "t", "u", "v", "w", "x", "y", "z">>

\* The characters of the model's text in code point order.
CharOrder == <<"\t", " ", "$", ",", ".">>
             \o <<"0", "1", "2", "3", "4", "5", "6", "7", "8", "9">>
             \o UpperCase \o <<"_">> \o LowerCase

Ord(c) == CHOOSE i \in 1..Len(CharOrder) : CharOrder[i] = c

LowerChar(c) ==
    IF \E i \in 1..Len(UpperCase) : UpperCase[i] = c
    THEN LowerCase[CHOOSE i \in 1..Len(UpperCase) : UpperCase[i] = c]
    ELSE c

\* str.lower()
Lower(s) == [i \in 1..Len(s) |-> LowerChar(s[i])]

\* str.strip(): the text between the first and the last non-whitespace character.
Strip(s) ==
    LET keep == {i \in 1..Len(s) : s[i] \notin Whitespace}
    IN  IF keep = {} THEN <<>>
        ELSE LET lo == CHOOSE i \in keep : \A j \in keep : i <= j
                 hi == CHOOSE i \in keep : \A j \in keep : j <= i
             IN  SubSeq(s, lo, hi)

\* Python's `needle in hay` for strings.
Contains(hay, needle) ==
    \E i \in 1..(Len(hay) - Len(needle) + 1) :
        SubSeq(hay, i, i + Len(needle) - 1) = needle

\* Python's < on strings: code point order, a proper prefix first.
StrLess(a, b) ==
    \E i \in 1..Len(b) :
        /\ \A j \in 1..(i - 1) : j <= Len(a) /\ a[j] = b[j]
        /\ \/ i = Len(a) + 1
           \/ i <= Len(a) /\ Ord(a[i]) < Ord(b[i])

RECURSIVE Pow10(_)
Pow10(n) == IF n = 0 THEN 1 ELSE 10 * Pow10(n - 1)

RECURSIVE DigitsValue(_)
DigitsValue(s) ==
    IF s = <<>> THEN 0
    ELSE 10 * DigitsValue(SubSeq(s, 1, Len(s) - 1)) + DigitVal(s[Len(s)])

\* The end of the run of digits of s that starts at i.
RunEnd(s, i) ==
    CHOOSE j \in i..Len(s) :
        /\ \A k \in i..j : s[k] \in Digits
        /\ j = Len(s) \/ s[j + 1] \notin Digits

\* A float: m / 10^e. None is Python's None.
None == [ok |-> FALSE, m |-> 0, e |-> 0]
Float(m, e) == [ok |-> TRUE, m |-> m, e |-> e]

NumLess(a, b) == a.m * Pow10(b.e) < b.m * Pow10(a.e)
NumEq(a, b) == a.m * Pow10(b.e) = b.m * Pow10(a.e)

\* num(v): the first match of \d+(\.\d+)? in the stripped text, as a float.
Num(v) ==
    LET s == Strip(v)
        ds == {i \in 1..Len(s) : s[i] \in Digits}
    IN  IF ds = {} THEN None
        ELSE LET i == CHOOSE k \in ds : \A j \in ds : k <= j
                 j == RunEnd(s, i)
                 frac == j + 2 <= Len(s) /\ s[j + 1] = "." /\ s[j + 2] \in Digits
                 k == IF frac THEN RunEnd(s, j + 2) ELSE j
             IN  IF frac
                 THEN Float(DigitsValue(SubSeq(s, i, j) \o SubSeq(s, j + 2, k)),
                            k - j - 1)
                 ELSE Float(DigitsValue(SubSeq(s, i, j)), 0)

\* `num(x) or 0`: None and 0.0 are both falsy.
OrZero(x) == IF x.ok /\ x.m # 0 THEN x ELSE Float(0, 0)

\* float(val) of sort_by_column, on the unsigned decimal literals the model's
\* cells hold: surrounding whitespace is ignored, then digits with at most one
\* point and at least one digit. Anything else raises ValueError (None here).
ParseFloat(val) ==
    LET s == Strip(val)
        dots == {i \in 1..Len(s) : s[i] = "."}
    IN  IF /\ \A i \in 1..Len(s) : s[i] \in Digits \cup {"."}
           /\ Cardinality(dots) <= 1
           /\ \E i \in 1..Len(s) : s[i] \in Digits
        THEN IF dots = {} THEN Float(DigitsValue(s), 0)
             ELSE LET d == CHOOSE i \in dots : TRUE
                  IN  Float(DigitsValue(SubSeq(s, 1, d - 1) \o SubSeq(s, d + 1, Len(s))),
                            Len(s) - d)
        ELSE None

-----------------------------------------------------------------------------
(* Column names *)

LIST_NO == <<"L", "I", "S", "T", "_", "N", "O">>
ZIP == <<"Z", "I", "P">>
COUNTY == <<"C", "O", "U", "N", "T", "Y">>
TOWN_NUM == <<"T", "O", "W", "N", "_", "N", "U", "M">>
NO_BEDROOMS == <<"N", "O", "_", "B", "E", "D", "R", "O", "O", "M", "S">>
NO_BATHS == <<"N", "O", "_", "B", "A", "T", "H", "S">>
LIST_PRICE == <<"L", "I", "S", "T", "_", "P", "R", "I", "C", "E">>
SQUARE_FEET == <<"S", "Q", "U", "A", "R", "E", "_", "F", "E", "E", "T">>
REMARKS == <<"R", "E", "M", "A", "R", "K", "S">>
PHOTO == <<"P", "H", "O", "T", "O">>

\* required of load_file
Required == {LIST_NO, ZIP, COUNTY}

Range(s) == {s[i] : i \in 1..Len(s)}

\* hs.index(h), counted from 1; 0 stands for dict.get's None (h is no column).
IndexOf(h, hs) ==
    IF h \in Range(hs)
    THEN CHOOSE i \in 1..Len(hs) : hs[i] = h /\ \A j \in 1..(i - 1) : hs[j] # h
    ELSE 0

\* sorted(S) for a set of strings.
RECURSIVE SortedStrings(_)
SortedStrings(S) ==
    IF S = {} THEN <<>>
    ELSE LET lo == CHOOSE x \in S : \A y \in S : x = y \/ StrLess(x, y)
         IN  <<lo>> \o SortedStrings(S \ {lo})

-----------------------------------------------------------------------------
(* Filter engine: apply_filters *)

FilterFields == {"bed", "bath", "price_min", "price_max", "sq_ft_min",
                 "remarks", "county", "town"}

NoCriteria == [f \in FilterFields |-> <<>>]

\* The exact-match predicate on COUNTY: r[idx["COUNTY"]] raises KeyError when
\* the column is absent and IndexError when the row is short; the row is then
\* dropped by the except clause, as it is when the cell differs.
CountyPass(r, hs, c) ==
    c["county"] # <<>> =>
        \E i \in {IndexOf(COUNTY, hs)} :
            i # 0 /\ i <= Len(r) /\ r[i] = c["county"]

\* The exact-match predicate on TOWN_NUM, applied only when the column exists.
TownPass(r, hs, c) ==
    \E i \in {IndexOf(TOWN_NUM, hs)} :
        (c["town"] # <<>> /\ i # 0) => (i <= Len(r) /\ r[i] = c["town"])

\* One numeric predicate:
\*   if var.get() and (num(r[idx.get(col)]) or 0) < num(var.get()): continue
\* (> for the upper bound). r[None] raises TypeError when the column is absent,
\* a short row raises IndexError, and float < None raises TypeError when the
\* input holds no number; every raise drops the row.
NumericPass(r, hs, col, input, upper) ==
    input # <<>> =>
        \E i \in {IndexOf(col, hs)} :
            /\ i # 0
            /\ i <= Len(r)
            /\ \E limit \in {Num(input)} :
                  /\ limit.ok
                  /\ \E cell \in {OrZero(Num(r[i]))} :
                        IF upper THEN ~NumLess(limit, cell)
                        ELSE ~NumLess(cell, limit)

\* The case-insensitive substring predicate on REMARKS.
RemarksPass(r, hs, c) ==
    \E i \in {IndexOf(REMARKS, hs)} :
        (c["remarks"] # <<>> /\ i # 0) =>
            (i <= Len(r) /\ Contains(Lower(r[i]), Lower(c["remarks"])))

\* The body of the loop over all_rows: TRUE when the row reaches
\* filtered.append(r).
KeepRow(r, hs, c) ==
    /\ CountyPass(r, hs, c)
    /\ TownPass(r, hs, c)
    /\ NumericPass(r, hs, NO_BEDROOMS, c["bed"], FALSE)
    /\ NumericPass(r, hs, NO_BATHS, c["bath"], FALSE)
    /\ NumericPass(r, hs, LIST_PRICE, c["price_min"], FALSE)
    /\ NumericPass(r, hs, LIST_PRICE, c["price_max"], TRUE)
    /\ NumericPass(r, hs, SQUARE_FEET, c["sq_ft_min"], FALSE)
    /\ RemarksPass(r, hs, c)

\* Variant of FilterRows that prepends each kept row, against which the
\* order of the filter result is tried.
RECURSIVE FilterRowsPrepend(_, _, _)
FilterRowsPrepend(rows, hs, c) ==
    IF rows = <<>> THEN <<>>
    ELSE LET rest == FilterRowsPrepend(Tail(rows), hs, c)
         IN  IF KeepRow(Head(rows), hs, c) THEN rest \o <<Head(rows)>> ELSE rest

\* The list `filtered` that apply_filters builds.
RECURSIVE FilterRows(_, _, _)
FilterRows(rows, hs, c) ==
    IF rows = <<>> THEN <<>>
    ELSE LET rest == FilterRows(Tail(rows), hs, c)
         IN  IF KeepRow(Head(rows), hs, c) THEN <<Head(rows)>> \o rest ELSE rest

-----------------------------------------------------------------------------
(* Presentation state threaded through the handlers.  A handler is a       *)
(* function from the record of the current values to the record of the    *)
(* values it leaves.                                                       *)

Cur ==
    [all_rows |-> all_rows, headers |-> headers, crit |-> crit,
     county_values |-> county_values, town_values |-> town_values,
     tree |-> tree, tree_columns |-> tree_columns, tree_items |-> tree_items, timers |-> timers,
     next_item |-> next_item, item_list_no |-> item_list_no,
     refreshed |-> refreshed, dialog |-> dialog]

\* The lightgray image refresh_table puts on every row it inserts.
Placeholder == [kind |-> "lightgray", task |-> 0]

\* What fetch_thumbnail returns to task i: the decoded photo, or the gray
\* image of its except clause. Every call builds a new PhotoImage.
Thumb(ok, i) == [kind |-> IF ok THEN "photo" ELSE "gray", task |-> i]

Max(S) == CHOOSE x \in S : \A y \in S : y <= x
Min(S) == CHOOSE x \in S : \A y \in S : x <= y

\* Variant of Mls without the strip(), against which the property of
\* whitespace-only identifiers is tried.
MlsUnstripped(r, hs) ==
    IF IndexOf(LIST_NO, hs) = 0 THEN <<>> ELSE r[IndexOf(LIST_NO, hs)]

\* mls of refresh_table:
\*   str(r[headers.index("LIST_NO")]).strip() if "LIST_NO" in headers else ""
Mls(r, hs) ==
    IF IndexOf(LIST_NO, hs) = 0 THEN <<>> ELSE Strip(r[IndexOf(LIST_NO, hs)])

\* The LIST_NO cell of a row as the file gave it (empty without the column).
RawListNo(r, hs) ==
    IF IndexOf(LIST_NO, hs) = 0 THEN <<>> ELSE r[IndexOf(LIST_NO, hs)]

\* values of refresh_table: [r[i] for i, h in enumerate(headers) if h != "PHOTO"]
RECURSIVE VisibleCells(_, _, _)
VisibleCells(r, hs, i) ==
    IF i > Len(hs) THEN <<>>
    ELSE (IF hs[i] # PHOTO THEN <<r[i]>> ELSE <<>>) \o VisibleCells(r, hs, i + 1)

\* visible_cols of refresh_table
VisibleCols(hs) == SelectSeq(hs, LAMBDA h : h # PHOTO)

\* tree.after(delay, callback): Tk keeps its timers by due time, and a timer
\* registered later fires after those already due at the same time.
AddTimer(ts, t) ==
    LET n == Cardinality({i \in 1..Len(ts) : ts[i].delay <= t.delay})
    IN  SubSeq(ts, 1, n) \o <<t>> \o SubSeq(ts, n + 1, Len(ts))

FetchTimer(delay, mls, item) ==
    [delay |-> delay, kind |-> "fetch", mls |-> mls, item |-> item,
     thumb |-> Placeholder]

ApplyTimer(item, thumb) ==
    [delay |-> 0, kind |-> "apply", mls |-> <<>>, item |-> item, thumb |-> thumb]

\* The loop over items_to_fetch: the i-th of them (from 0) after i * 50 ms.
RECURSIVE ScheduleFetches(_, _, _)
ScheduleFetches(ts, fetch, i) ==
    IF i > Len(fetch) THEN ts
    ELSE ScheduleFetches(AddTimer(ts, FetchTimer(i - 1, fetch[i].mls, fetch[i].item)),
                         fetch, i + 1)

\* refresh_table(rows). A row too short for a visible column raises
\* IndexError in the insert loop: the rows before it are in the tree and no
\* fetch is scheduled. `who` is the caller.
RefreshTable(w, rows, who) ==
    LET hs == w.headers
        needed == Max({i \in 1..Len(hs) : hs[i] # PHOTO} \cup {0})
        bad == {i \in 1..Len(rows) : Len(rows[i]) < needed}
        n == IF bad = {} THEN Len(rows) ELSE Min(bad) - 1
        id(i) == w.next_item + i - 1
        wanted == {i \in 1..n : bad = {} /\ Mls(rows[i], hs) # <<>>}
        items_to_fetch ==
            [p \in 1..Cardinality(wanted) |->
                LET i == CHOOSE k \in wanted :
                             Cardinality({j \in wanted : j < k}) = p - 1
                IN  [mls |-> Mls(rows[i], hs), item |-> id(i)]]
    IN  [w EXCEPT
            !.tree = [i \in 1..n |-> id(i)],
            !.tree_columns = VisibleCols(hs),
            !.tree_items =
                [k \in {id(i) : i \in 1..n} |->
                    [values |-> VisibleCells(rows[k - w.next_item + 1], hs, 1),
                     image |-> Placeholder,
                     call |-> IF (k - w.next_item + 1) \in wanted
                              THEN "scheduled" ELSE "none"]],
            !.timers = ScheduleFetches(w.timers, items_to_fetch, 1),
            !.next_item = w.next_item + n,
            !.item_list_no =
                w.item_list_no \o [i \in 1..n |-> RawListNo(rows[i], hs)],
            !.refreshed = [by |-> who, rows |-> rows, raised |-> bad # {}]]

\* apply_filters(): the scan of all_rows, then refresh_table(filtered).
ApplyFilters(w) ==
    IF w.all_rows = <<>> \/ w.headers = <<>> THEN w
    ELSE RefreshTable(w, FilterRows(w.all_rows, w.headers, w.crit), "apply_filters")

-----------------------------------------------------------------------------
(* Listing table loader: load_file *)

\* rows = [row for row in reader if any(cell.strip() for cell in row)]
NonBlank(rows) ==
    SelectSeq(rows, LAMBDA row : \E i \in 1..Len(row) : Strip(row[i]) # <<>>)

\* Variant of ResolveTown that writes the town into the ZIP cell, against
\* which the frame of the ZIP -> town pass is tried.
ResolveTownWrongCell(r, zip_idx, town_idx, lookup) ==
    IF r[zip_idx] \in DOMAIN lookup
    THEN [r EXCEPT ![zip_idx] = lookup[r[zip_idx]]]
    ELSE r

\* One row of the ZIP -> town pass:
\*   if r[zip_idx] in zip_lookup: r[town_idx] = zip_lookup[r[zip_idx]]
ResolveTown(r, zip_idx, town_idx, lookup) ==
    IF r[zip_idx] \in DOMAIN lookup
    THEN [r EXCEPT ![town_idx] = lookup[r[zip_idx]]]
    ELSE r

\* The ZIP -> town pass over all_rows, run only with a TOWN_NUM column. A row
\* too short for the cell it reads or writes raises IndexError: the rows
\* before it are resolved already, the rest are not.
ZipPass(rows, hs, lookup) ==
    LET zip_idx == IndexOf(ZIP, hs)
        town_idx == IndexOf(TOWN_NUM, hs)
        raising == {i \in 1..Len(rows) :
                       \/ Len(rows[i]) < zip_idx
                       \/ /\ rows[i][zip_idx] \in DOMAIN lookup
                          /\ Len(rows[i]) < town_idx}
        stop == IF raising = {} THEN Len(rows) + 1 ELSE Min(raising)
    IN  IF town_idx = 0 THEN [rows |-> rows, raised |-> FALSE]
        ELSE [rows |-> [i \in 1..Len(rows) |->
                           IF i < stop
                           THEN ResolveTown(rows[i], zip_idx, town_idx, lookup)
                           ELSE rows[i]],
              raised |-> raising # {}]

\* [""] + sorted({r[i] for r in all_rows if r[i]})
DropdownValues(rows, i) ==
    <<<<>>>> \o SortedStrings({rows[k][i] : k \in 1..Len(rows)} \ {<<>>})

\* The except clause of load_file: the error dialog, then refresh_table(all_rows).
LoadError(w) ==
    RefreshTable([w EXCEPT !.dialog = "Load Error"], w.all_rows, "load_file")

\* The end of load_file's try block: refresh_table(all_rows), then the
\* "Loaded" dialog unless the refresh raised.
LoadFinish(w) ==
    IF w.refreshed.raised THEN LoadError(w) ELSE [w EXCEPT !.dialog = "Loaded"]

AnyShort(rows, i) == \E k \in 1..Len(rows) : Len(rows[k]) < i

\* "Populate dropdowns", the town dropdown: with a TOWN_NUM column its values
\* are set, and town_dropdown.set("") writes town_var, whose write trace runs
\* apply_filters.
LoadTowns(w) ==
    IF IndexOf(TOWN_NUM, w.headers) = 0 THEN w
    ELSE ApplyFilters([w EXCEPT
             !.town_values = DropdownValues(w.all_rows, IndexOf(TOWN_NUM, w.headers)),
             !.crit["town"] = <<>>])

\* "Populate dropdowns", the county dropdown: county_dropdown.set("") writes
\* county_var, whose write trace runs apply_filters.
LoadCounties(w) ==
    ApplyFilters([w EXCEPT
        !.county_values = DropdownValues(w.all_rows, IndexOf(COUNTY, w.headers)),
        !.crit["county"] = <<>>])

\* load_file after the town column is resolved; a row too short for the
\* column a dropdown reads raises IndexError.
LoadDropdowns(w, raised) ==
    IF raised \/ AnyShort(w.all_rows, IndexOf(COUNTY, w.headers)) THEN LoadError(w)
    ELSE IF AnyShort(w.all_rows, IndexOf(TOWN_NUM, w.headers))
         THEN LoadError(LoadCounties(w))
         ELSE LoadFinish(RefreshTable(LoadTowns(LoadCounties(w)),
                                      w.all_rows, "load_file"))

\* load_file from the ZIP -> town pass on: the file has its required columns.
LoadValid(w, lookup) ==
    LoadDropdowns([w EXCEPT !.all_rows = ZipPass(w.all_rows, w.headers, lookup).rows],
                  ZipPass(w.all_rows, w.headers, lookup).raised)

\* load_file() on the file the dialog returned. headers[:] and all_rows[:]
\* are assigned before the required columns are validated.
LoadFile(w, f, lookup) ==
    IF ~f.readable THEN LoadError(w)
    ELSE LET rows == NonBlank(f.rows)
             w1 == [w EXCEPT
                       !.headers = [i \in 1..Len(rows[1]) |-> Strip(rows[1][i])],
                       !.all_rows = Tail(rows)]
         IN  IF Len(rows) < 2 THEN [w EXCEPT !.dialog = "File Error"]
             ELSE IF Required \ Range(w1.headers) # {}
                  THEN [w1 EXCEPT !.dialog = "Invalid File"]
                  ELSE LoadValid(w1, lookup)

-----------------------------------------------------------------------------
(* Sort engine: sort_by_column *)

\* val_sort of one item: float(val), or str(val).lower() when float raises.
SortKey(val, k) ==
    [num |-> ParseFloat(val).ok, f |-> ParseFloat(val), s |-> Lower(val), id |-> k]

\* (val_sort, k) < (val_sort, k) on tuples whose first parts have one type.
ItemLess(a, b) ==
    IF a.num
    THEN NumLess(a.f, b.f) \/ (NumEq(a.f, b.f) /\ a.id < b.id)
    ELSE StrLess(a.s, b.s) \/ (a.s = b.s /\ a.id < b.id)

RECURSIVE SortItems(_)
SortItems(S) ==
    IF S = {} THEN <<>>
    ELSE LET lo == CHOOSE x \in S : \A y \in S : x = y \/ ItemLess(x, y)
         IN  <<lo>> \o SortItems(S \ {lo})

Reverse(s) == [i \in 1..Len(s) |-> s[Len(s) + 1 - i]]

\* reverse = sort_state.get(col, False)
SortReverse(state, col) == IF col \in DOMAIN state THEN state[col] ELSE FALSE

\* items of sort_by_column: one key per displayed row, from tree.set(k, col).
SortKeys(col) ==
    {SortKey(tree_items[k].values[IndexOf(col, tree_columns)], k) : k \in Range(tree)}

\* items.sort raises TypeError when it has to compare a float with a str.
SortRaises(col) ==
    \E a, b \in SortKeys(col) : a.num /\ ~b.num

-----------------------------------------------------------------------------
(* ZIP -> town lookup: load_zip_lookup *)

\* str.split(sep) for a one-character separator.
RECURSIVE Split(_, _)
Split(s, sep) ==
    LET at == {i \in 1..Len(s) : s[i] = sep}
    IN  IF at = {} THEN <<s>>
        ELSE <<SubSeq(s, 1, Min(at) - 1)>> \o Split(SubSeq(s, Min(at) + 1, Len(s)), sep)

EmptyDict == [k \in {} |-> <<>>]

\* d[key] = value
Put(d, key, value) ==
    [k \in DOMAIN d \cup {key} |-> IF k = key THEN value ELSE d[k]]

\* The loop over the lines of zipcode.txt; a later line replaces an earlier one.
RECURSIVE ZipLookupOf(_)
ZipLookupOf(lines) ==
    IF lines = <<>> THEN EmptyDict
    ELSE LET before == ZipLookupOf(SubSeq(lines, 1, Len(lines) - 1))
             parts == Split(Strip(lines[Len(lines)]), "|")
         IN  IF Len(parts) >= 2 THEN Put(before, parts[1], parts[2]) ELSE before

\* load_zip_lookup(): a missing file leaves the lookup empty.
LoadZipLookup(zf) == IF zf.found THEN ZipLookupOf(zf.lines) ELSE EmptyDict

-----------------------------------------------------------------------------
(* Thumbnail cache *)

\* Variant of CacheHit that takes a cached failure for a miss, against which
\* the absence of retries is tried.
CacheHitPhotoOnly(mls, cache) ==
    mls \in DOMAIN cache /\ cache[mls].kind = "photo"

\* if mls_number in photo_images: return
CacheHit(mls, cache) == mls \in DOMAIN cache

\* thumb_pool = ThreadPoolExecutor(max_workers=6)
max_workers == 6

Task(mls, item) == [mls |-> mls, item |-> item, pc |-> "queued", thumb |-> Placeholder]

\* The tasks the pool's threads are running: the oldest max_workers of those
\* not finished.
Running ==
    {i \in 1..Len(tasks) :
        /\ tasks[i].pc # "done"
        /\ Cardinality({j \in 1..(i - 1) : tasks[j].pc # "done"}) < max_workers}

-----------------------------------------------------------------------------
(* Bounds *)

\* Operations of the user in a session: loads, filter writes, heading clicks.
MaxEvents == 3
\* The same in the runs with the timers and the worker pool.
MaxThumbEvents == 2
\* Fetches a session submits to the pool.
MaxTasks == 2

-----------------------------------------------------------------------------
(* Operations *)

\* The user's last operation: its name; the file chosen (load_file); the
\* variable written, and whether the write repeats the text the previous
\* apply_filters ran with (apply_filters); the column clicked and the
\* direction read from sort_state (sort_by_column).
OpRec(name, file, field, rerun, col, reverse) ==
    [name |-> name, file |-> file, field |-> field, rerun |-> rerun,
     col |-> col, reverse |-> reverse]

Assign(w) ==
    /\ all_rows' = w.all_rows
    /\ headers' = w.headers
    /\ crit' = w.crit
    /\ county_values' = w.county_values
    /\ town_values' = w.town_values
    /\ tree' = w.tree
    /\ tree_columns' = w.tree_columns
    /\ tree_items' = w.tree_items
    /\ timers' = w.timers
    /\ next_item' = w.next_item
    /\ item_list_no' = w.item_list_no
    /\ refreshed' = w.refreshed
    /\ dialog' = w.dialog

\* The "Load Property File" button, with file k of `files` chosen in the dialog.
Load(files, k) ==
    /\ events < MaxEvents
    /\ events' = events + 1
    /\ \E w \in {LoadFile(Cur, files[k], zip_lookup)} : Assign(w)
    /\ op' = OpRec("load_file", k, "", FALSE, <<>>, FALSE)
    /\ UNCHANGED <<zip_lookup, photo_images, sort_state, tasks, odd_calls>>

\* The dialog cancelled: `if not path: return`.
LoadCancel ==
    /\ events < MaxEvents
    /\ events' = events + 1
    /\ op' = OpRec("load_file", 0, "", FALSE, <<>>, FALSE)
    /\ UNCHANGED <<all_rows, headers, zip_lookup, photo_images, sort_state, crit,
                   county_values, town_values, tree, tree_columns, tree_items,
                   timers, tasks, next_item, item_list_no, refreshed, odd_calls,
                   dialog>>

\* A write to one of the filter variables: the entry fields take any text,
\* the read-only comboboxes one of their values. The write trace runs
\* apply_filters.
SetFilter(field, value) ==
    /\ events < MaxEvents
    /\ events' = events + 1
    /\ field = "county" => value \in Range(county_values)
    /\ field = "town" => value \in Range(town_values)
    /\ \E w \in {ApplyFilters([Cur EXCEPT !.crit[field] = value])} : Assign(w)
    /\ op' = OpRec("apply_filters", 0, field,
                 op.name = "apply_filters" /\ value = crit[field], <<>>, FALSE)
    /\ UNCHANGED <<zip_lookup, photo_images, sort_state, tasks, odd_calls>>

\* A click on the heading of column col.
SortByColumn(col) ==
    LET reverse == SortReverse(sort_state, col)
        sorted == SortItems(SortKeys(col))
        order == [i \in 1..Len(sorted) |-> sorted[i].id]
    IN  /\ events < MaxEvents
        /\ events' = events + 1
        /\ col \in Range(tree_columns)
        /\ IF SortRaises(col)
           THEN UNCHANGED <<tree, sort_state>>
           ELSE /\ tree' = IF reverse THEN Reverse(order) ELSE order
                /\ sort_state' = Put(sort_state, col, ~reverse)
        /\ odd_calls' = IF col \in odd_calls THEN odd_calls \ {col}
                        ELSE odd_calls \cup {col}
        /\ op' = OpRec("sort_by_column", 0, "", FALSE, col, reverse)
        /\ UNCHANGED <<all_rows, headers, zip_lookup, photo_images, crit,
                       county_values, town_values, tree_columns, tree_items,
                       timers, tasks, next_item, item_list_no, refreshed, dialog>>

\* 50 ms pass.
Tick ==
    /\ UNCHANGED events
    /\ \E i \in 1..Len(timers) : timers[i].delay > 0
    /\ timers' = [i \in 1..Len(timers) |->
                     [timers[i] EXCEPT !.delay = IF @ > 0 THEN @ - 1 ELSE 0]]
    /\ UNCHANGED <<op, all_rows, headers, zip_lookup, photo_images, sort_state, crit,
                   county_values, town_values, tree, tree_columns, tree_items,
                   tasks, next_item, item_list_no, refreshed, odd_calls, dialog>>

SetCall(items, item, call) ==
    IF item \in DOMAIN items THEN [items EXCEPT ![item].call = call] ELSE items

\* The UI thread runs the first due timer. A timer of refresh_table calls
\* fetch_thumbnail_async(mls, tree, item); a timer of a worker calls apply().
FireTimer ==
    /\ UNCHANGED events
    /\ timers # <<>>
    /\ Head(timers).delay = 0
    /\ timers' = Tail(timers)
    /\ LET t == Head(timers)
       IN  \/ /\ t.kind = "fetch"
              /\ CacheHit(t.mls, photo_images)
              /\ tree_items' = SetCall(tree_items, t.item, "hit")
              /\ UNCHANGED tasks
           \/ /\ t.kind = "fetch"
              /\ ~CacheHit(t.mls, photo_images)
              /\ Len(tasks) < MaxTasks
              /\ tasks' = Append(tasks, Task(t.mls, t.item))
              /\ tree_items' = SetCall(tree_items, t.item, "submitted")
           \/ /\ t.kind = "apply"
              /\ tree_items' = IF t.item \in Range(tree)
                               THEN [tree_items EXCEPT ![t.item].image = t.thumb]
                               ELSE tree_items
              /\ UNCHANGED tasks
    /\ UNCHANGED <<all_rows, headers, zip_lookup, photo_images, sort_state, crit,
                   county_values, town_values, tree, tree_columns, next_item,
                   item_list_no, refreshed, odd_calls, dialog, op>>

WorkerStep(i, pc, thumb) ==
    /\ tasks' = [tasks EXCEPT ![i].pc = pc, ![i].thumb = thumb]
    /\ UNCHANGED <<all_rows, headers, zip_lookup, sort_state, crit, county_values,
                   town_values, tree, tree_columns, tree_items, next_item,
                   item_list_no, refreshed, odd_calls, dialog, events, op>>

\* worker(), first half, in the thread that runs task i:
\*   thumb = fetch_thumbnail(mls_number); photo_images[mls_number] = thumb
\* fetch_thumbnail returns the photo, or the gray image when the request or
\* the decoding raises.
WorkerStore(i, ok) ==
    /\ i \in Running
    /\ tasks[i].pc = "queued"
    /\ photo_images' = Put(photo_images, tasks[i].mls, Thumb(ok, i))
    /\ WorkerStep(i, "stored", Thumb(ok, i))
    /\ UNCHANGED timers

\* worker(), second half: tree.after(0, apply); the thread's thumb is then
\* held by the cache and by apply alone.
WorkerAfter(i) ==
    /\ tasks[i].pc = "stored"
    /\ timers' = AddTimer(timers, ApplyTimer(tasks[i].item, tasks[i].thumb))
    /\ WorkerStep(i, "done", Placeholder)
    /\ UNCHANGED photo_images

-----------------------------------------------------------------------------
(* Inputs *)

\* zipcode.txt: absent, or present with an extra column, padding around a
\* line, a line without a separator and a ZIP listed twice.
ZipFile ==
    [found |-> TRUE,
     lines |-> << <<"1", "|", "A", "y", "|", "M", "A">>,
                  <<" ", "2", "|", "B", "o", " ">>,
                  <<"b", "a", "d">>,
                  <<"1", "|", "A", "c">> >>]

NoZipFile == [found |-> FALSE, lines |-> <<>>]

File(rows) == [readable |-> TRUE, rows |-> rows]

\* The file of the thumbnail runs: one identifier on two rows (once padded)
\* around a row whose LIST_NO is only whitespace.
ThumbFiles ==
    << File(<< <<LIST_NO, ZIP, COUNTY>>,
               <<<<" ", "7">>, <<"1">>, <<"A">>>>,
               <<<<" ">>, <<"1">>, <<"A">>>>,
               <<<<"7">>, <<"2">>, <<"A">>>> >>) >>

\* Files of the loader runs: unreadable; a header alone among blank rows; no
\* COUNTY column; no LIST_NO column; padded headers with a TOWN_NUM column, a
\* blank row and ZIPs in and out of the lookup; no TOWN_NUM column; a row too
\* short for its ZIP.
LoadFiles ==
    << [readable |-> FALSE, rows |-> <<>>],
       File(<< <<<<>>, <<" ">>>>,
               <<LIST_NO, ZIP, COUNTY>>,
               <<<<" ">>, <<>>, <<"\t">>>> >>),
       File(<< <<LIST_NO, ZIP>>,
               <<<<"3">>, <<"1">>>> >>),
       File(<< <<ZIP, COUNTY, TOWN_NUM>>,
               <<<<"2">>, <<"C">>, <<"0", "4">>>> >>),
       File(<< <<LIST_NO, <<" ">> \o ZIP \o <<" ">>, COUNTY, TOWN_NUM>>,
               <<<<"4">>, <<"1">>, <<"A">>, <<"0", "1">>>>,
               <<<<>>, <<" ">>, <<>>, <<>>>>,
               <<<<"5">>, <<" ", "1">>, <<"B">>, <<"0", "2">>>> >>),
       File(<< <<LIST_NO, TOWN_NUM, COUNTY, ZIP>>,
               <<<<"6">>, <<"0", "3">>, <<"A">>, <<"2">>>>,
               <<<<"4">>, <<>>, <<"A">>, <<"3">>>> >>),
       File(<< <<COUNTY, ZIP, LIST_NO>>,
               <<<<"B">>, <<"1">>, <<"6">>>> >>),
       File(<< <<LIST_NO, COUNTY, ZIP, TOWN_NUM>>,
               <<<<"7">>, <<"A">>, <<"2">>, <<"0", "5">>>>,
               <<<<"8">>, <<"A">>>> >>) >>

\* Files of the filter runs: bedrooms, price and remarks columns, no baths or
\* square feet column.
FilterFiles ==
    << File(<< <<LIST_NO, ZIP, COUNTY, TOWN_NUM, NO_BEDROOMS, LIST_PRICE, REMARKS>>,
               <<<<"5">>, <<"1">>, <<"A">>, <<"t">>, <<"3", " ", "b", "r">>,
                 <<"$", "9", ".", "5">>, <<"B", "i", "g", " ", "L", "o", "t">>>>,
               <<<<>>, <<"2">>, <<"B">>, <<"u">>, <<>>,
                 <<"1", "0">>, <<"p", "o", "o", "l">>>>,
               <<<<"6">>, <<"3">>, <<"A">>, <<"t">>, <<"2">>,
                 <<"N", ",", "A">>, <<"l", "o", "t">>>> >>) >>

\* What the user types into the entry fields: nothing, text without a digit,
\* numbers.
FilterInputs(field) ==
    CASE field = "bed" -> {<<>>, <<"x">>, <<"3">>}
      [] field = "bath" -> {<<>>, <<"1">>}
      [] field = "price_min" -> {<<>>, <<"$">>, <<"9", ".", "5">>}
      [] field = "price_max" -> {<<>>, <<" ">>, <<"1", "0">>}
      [] field = "sq_ft_min" -> {<<>>, <<"n", "a">>}
      [] field = "remarks" -> {<<>>, <<"L", "O", "T">>}
      [] field = "county" -> Range(county_values)
      [] field = "town" -> Range(town_values)

\* Files of the sort runs: a numeric column (LIST_NO), a text column (COUNTY),
\* a column of numbers and text (ZIP) and numbers that differ as text.
SortFiles ==
    << File(<< <<LIST_NO, ZIP, COUNTY, LIST_PRICE>>,
               <<<<"9">>, <<"1">>, <<"b">>, <<"9", ".", "0">>>>,
               <<<<"1", "0">>, <<"x">>, <<"A">>, <<"1", "0">>>>,
               <<<<"8">>, <<"2">>, <<"a">>, <<"9">>>> >>),
       File(<< <<LIST_NO, ZIP, COUNTY>>,
               <<<<"2">>, <<"5">>, <<"c">>>>,
               <<<<"1">>, <<"5">>, <<"C">>>> >>) >>

-----------------------------------------------------------------------------
(* Specifications *)

\* open_property_search_window up to root.mainloop().
InitWith(zip_files) ==
    \E zf \in zip_files :
        /\ all_rows = <<>>
        /\ headers = <<>>
        /\ zip_lookup = LoadZipLookup(zf)
        /\ photo_images = EmptyDict
        /\ sort_state = EmptyDict
        /\ crit = NoCriteria
        /\ county_values = <<>>
        /\ town_values = <<>>
        /\ tree = <<>>
        /\ tree_columns = <<>>
        /\ tree_items = EmptyDict
        /\ timers = <<>>
        /\ tasks = <<>>
        /\ next_item = 1
        /\ item_list_no = <<>>
        /\ refreshed = [by |-> "none", rows |-> <<>>, raised |-> FALSE]
        /\ odd_calls = {}
        /\ dialog = IF zf.found THEN "none" ELSE "Missing File"
        /\ events = 0
        /\ op = OpRec("init", 0, "", FALSE, <<>>, FALSE)

Init == InitWith({ZipFile})

InitAnyZip == InitWith({ZipFile, NoZipFile})

\* No timer is pending and every worker has returned.
Quiescent ==
    /\ timers = <<>>
    /\ \A i \in 1..Len(tasks) : tasks[i].pc = "done"

\* The user loads the file, and loads it again once its thumbnails are
\* through.
LoadThumb ==
    /\ events < MaxThumbEvents
    /\ all_rows = <<>> \/ Quiescent
    /\ \E k \in 1..Len(ThumbFiles) : Load(ThumbFiles, k)

PickCounty == \E v \in Range(county_values) : SetFilter("county", v)

\* The user chooses another county than the one shown.
ChangeCounty ==
    /\ events < MaxThumbEvents
    /\ \E v \in Range(county_values) \ {crit["county"]} : SetFilter("county", v)

WorkerRun ==
    \E i \in 1..Len(tasks) :
        \/ \E ok \in BOOLEAN : WorkerStore(i, ok)
        \/ WorkerAfter(i)

\* The UI thread (loads, county changes, timers) beside the worker pool.
Next ==
    \/ LoadThumb
    \/ ChangeCounty
    \/ Tick
    \/ FireTimer
    \/ WorkerRun

Spec == Init /\ [][Next]_vars

LoadAny == \E k \in 1..Len(LoadFiles) : Load(LoadFiles, k)

\* The loader alone.
NextLoad == LoadAny \/ LoadCancel

SpecLoad == InitAnyZip /\ [][NextLoad]_vars

LoadFilter == \E k \in 1..Len(FilterFiles) : Load(FilterFiles, k)

TypeFilter == \E field \in FilterFields : \E v \in FilterInputs(field) : SetFilter(field, v)

\* The filter panel on a loaded file.
NextFilter == LoadFilter \/ TypeFilter

SpecFilter == Init /\ [][NextFilter]_vars

LoadSort == \E k \in 1..Len(SortFiles) : Load(SortFiles, k)

ClickHeading == \E col \in Range(tree_columns) : SortByColumn(col)

\* Heading clicks on a loaded file, between county choices.
NextSort == LoadSort \/ ClickHeading \/ PickCounty

SpecSort == Init /\ [][NextSort]_vars

-----------------------------------------------------------------------------
(* Properties of the thumbnail cache, under Spec *)

\* C2: across a session at most one fetch is started for a listing
\* identifier: no two tasks handed to the pool carry the same identifier.
C2_OneFetchPerIdentifier ==
    \A i, j \in 1..Len(tasks) : tasks[i].mls = tasks[j].mls => i = j

\* C3: a thumbnail request for a row whose identifier is already cached
\* leaves the row showing the cached image: once the timers and the workers
\* are through, no displayed row whose request hit the cache still shows the
\* generic placeholder.
C3_CacheHitShowsImage ==
    Quiescent =>
        \A k \in Range(tree) :
            tree_items[k].call = "hit" => tree_items[k].image # Placeholder

\* C4: a cache entry is written once: no step removes an identifier from the
\* cache or replaces the image stored under it.
C4_CacheEntryWrittenOnce ==
    [][\A m \in DOMAIN photo_images :
          /\ m \in DOMAIN photo_images'
          /\ photo_images'[m] = photo_images[m]]_vars

\* C5: a failed fetch stores the gray image under the identifier it was
\* started for, and a request for an identifier that is in the cache, with
\* the gray image of a failure as with a photo, starts no fetch.
C5_FailureCachedNoRetry ==
    [][/\ \A i \in 1..Len(tasks) :
             (/\ tasks[i].pc = "queued"
              /\ tasks'[i].pc = "stored"
              /\ tasks'[i].thumb.kind = "gray")
             => /\ tasks[i].mls \in DOMAIN photo_images'
                /\ photo_images'[tasks[i].mls] = tasks'[i].thumb
       /\ (/\ timers # <<>>
           /\ timers' = Tail(timers)
           /\ Head(timers).kind = "fetch"
           /\ Head(timers).mls \in DOMAIN photo_images)
          => tasks' = tasks]_vars

\* A displayed row's request has met the gray image a failed fetch cached.
C5_Witness ==
    \E k \in Range(tree) :
        /\ tree_items[k].call = "hit"
        /\ Strip(item_list_no[k]) \in DOMAIN photo_images
        /\ photo_images[Strip(item_list_no[k])].kind = "gray"

\* C9: a row whose LIST_NO is empty or only whitespace never has a fetch
\* scheduled or started for it, and every fetch carries the stripped LIST_NO
\* of its row.
C9_BlankListNoNeverFetched ==
    /\ \A i \in 1..Len(timers) :
          timers[i].kind = "fetch" =>
              /\ timers[i].mls = Strip(item_list_no[timers[i].item])
              /\ timers[i].mls # <<>>
    /\ \A i \in 1..Len(tasks) :
          /\ tasks[i].mls = Strip(item_list_no[tasks[i].item])
          /\ tasks[i].mls # <<>>
    /\ \A k \in DOMAIN tree_items :
          Strip(item_list_no[k]) = <<>> => tree_items[k].call = "none"

\* A row with a whitespace-only LIST_NO is displayed while the fetch for a
\* row displayed with it has been started.
C9_Witness ==
    \E k, j \in Range(tree) :
        /\ item_list_no[k] # <<>>
        /\ Strip(item_list_no[k]) = <<>>
        /\ \E i \in 1..Len(tasks) : tasks[i].item = j

-----------------------------------------------------------------------------
(* Properties of the loader, under SpecLoad *)

\* The file has two non-blank rows or more and a header without one of the
\* required columns.
LacksRequired(f) ==
    /\ f.readable
    /\ Len(NonBlank(f.rows)) >= 2
    /\ \E h \in Required :
          \A i \in 1..Len(NonBlank(f.rows)[1]) : Strip(NonBlank(f.rows)[1][i]) # h

\* C1: a load of a file with two non-blank rows or more whose header lacks
\* LIST_NO, ZIP or COUNTY reports the missing columns and leaves all_rows and
\* headers as they were before the call.
C1_InvalidFileKeepsTable ==
    [][(/\ events' = events + 1
        /\ op'.name = "load_file"
        /\ op'.file # 0
        /\ LacksRequired(LoadFiles[op'.file]))
       => /\ dialog' = "Invalid File"
          /\ all_rows' = all_rows
          /\ headers' = headers]_vars

\* The data rows of the file of the last load, as read.
FileRows == Tail(NonBlank(LoadFiles[op.file].rows))

\* The last operation is a load that went through to "Loaded", of a file
\* with a TOWN_NUM column.
LoadedWithTown ==
    /\ op.name = "load_file"
    /\ op.file # 0
    /\ dialog = "Loaded"
    /\ IndexOf(TOWN_NUM, headers) # 0

\* C10: after a successful load of a file with a TOWN_NUM column, a row whose
\* ZIP is a key of the lookup has the looked-up town in TOWN_NUM, a row whose
\* ZIP is not a key has the TOWN_NUM read from the file, and every other cell
\* is as read from the file.
C10_ZipResolvesTown ==
    LoadedWithTown =>
        /\ Len(all_rows) = Len(FileRows)
        /\ \A i \in 1..Len(FileRows) :
              /\ Len(all_rows[i]) = Len(FileRows[i])
              /\ \A j \in 1..Len(FileRows[i]) :
                    all_rows[i][j] =
                        IF /\ j = IndexOf(TOWN_NUM, headers)
                           /\ FileRows[i][IndexOf(ZIP, headers)] \in DOMAIN zip_lookup
                        THEN zip_lookup[FileRows[i][IndexOf(ZIP, headers)]]
                        ELSE FileRows[i][j]

\* A load went through with one row's town replaced by the lookup and
\* another row's ZIP not in the lookup.
C10_Witness ==
    /\ LoadedWithTown
    /\ \E i, k \in 1..Len(FileRows) :
          /\ FileRows[i][IndexOf(ZIP, headers)] \in DOMAIN zip_lookup
          /\ all_rows[i][IndexOf(TOWN_NUM, headers)] #
                 FileRows[i][IndexOf(TOWN_NUM, headers)]
          /\ FileRows[k][IndexOf(ZIP, headers)] \notin DOMAIN zip_lookup

-----------------------------------------------------------------------------
(* Properties of the filter engine, under SpecFilter *)

\* The column each numeric criterion reads.
NumericColumn ==
    [bed |-> NO_BEDROOMS, bath |-> NO_BATHS, price_min |-> LIST_PRICE,
     price_max |-> LIST_PRICE, sq_ft_min |-> SQUARE_FEET]

\* The criteria without the numeric inputs that hold text but no digit run
\* (those on a column the table has: the others are no subject of C6).
SkipUnparsable(c, hs) ==
    [f \in FilterFields |->
        IF /\ f \in DOMAIN NumericColumn
           /\ IndexOf(NumericColumn[f], hs) # 0
           /\ c[f] # <<>>
           /\ ~Num(c[f]).ok
        THEN <<>> ELSE c[f]]

\* The last operation is a write to a filter variable on a loaded table.
Filtered ==
    /\ op.name = "apply_filters"
    /\ all_rows # <<>>
    /\ headers # <<>>

\* C6: a numeric criterion whose input is not empty but holds no digit run is
\* skipped: the rows apply_filters hands to refresh_table are those the
\* other criteria keep.
C6_UnparsableCriterionSkipped ==
    Filtered =>
        /\ refreshed.by = "apply_filters"
        /\ refreshed.rows = FilterRows(all_rows, headers, SkipUnparsable(crit, headers))

\* s can be had from t by deleting elements.
RECURSIVE IsSubseq(_, _)
IsSubseq(s, t) ==
    IF s = <<>> THEN TRUE
    ELSE IF t = <<>> THEN FALSE
    ELSE IF Head(s) = Head(t) THEN IsSubseq(Tail(s), Tail(t))
    ELSE IsSubseq(s, Tail(t))

\* C7: the rows apply_filters hands to refresh_table are a subsequence of
\* all_rows, filtering them again with the same criteria keeps them all, and
\* a run of apply_filters that follows a run with the same criteria and
\* table hands over the same rows.
C7_FilterSubsequenceIdempotent ==
    [][/\ Filtered' =>
             /\ refreshed'.by = "apply_filters"
             /\ IsSubseq(refreshed'.rows, all_rows')
             /\ FilterRows(refreshed'.rows, headers', crit') = refreshed'.rows
       /\ (Filtered' /\ op'.rerun /\ events' = events + 1) =>
             /\ crit' = crit
             /\ all_rows' = all_rows
             /\ refreshed'.rows = refreshed.rows]_vars

\* A run repeated with unchanged criteria has kept two rows of the table and
\* dropped one between or around them.
C7_Witness ==
    /\ Filtered
    /\ op.rerun
    /\ Len(refreshed.rows) >= 2
    /\ Len(refreshed.rows) < Len(all_rows)
    /\ refreshed.rows[1] # refreshed.rows[2]

-----------------------------------------------------------------------------
(* Properties of the sort toggle, under SpecSort *)

\* C8: the clicks on a column alternate its direction, ascending first,
\* whatever is clicked in between: the next click on a column sorts
\* descending exactly when the column has been clicked an odd number of times.
C8_SortDirectionAlternates ==
    \A col \in Range(tree_columns) \cup DOMAIN sort_state \cup odd_calls :
        SortReverse(sort_state, col) = (col \in odd_calls)

====
